---- MODULE Spec2Model ----
(***************************************************************************)
(* A model of the job-search core of ADK_MCP: search_jobs_api and          *)
(* calculate_job_statistics of function_tool.py.                           *)
(*                                                                         *)
(* JSON values and Python objects are tagged records, so that a field that *)
(* holds a string in one response and null in another stays comparable:    *)
(*   [t |-> "null"]                 None / JSON null                       *)
(*   [t |-> "str",  s |-> "..."]    a string                               *)
(*   [t |-> "int",  n |-> 3]        an integer                             *)
(*   [t |-> "obj",  f |-> f]        a dict / JSON object, f its key map    *)
(*   [t |-> "list", q |-> <<..>>]   a list                                 *)
(*   [t |-> "text", c |-> <<..>>]   a string kept as its character list    *)
(*                                  (job descriptions, which are scanned)  *)
(***************************************************************************)
EXTENDS Integers, Sequences, FiniteSets, TLC

VARIABLES
    pc,       \* "idle", "waiting" (the GET is in flight) or "returned"
    op,       \* the function the caller invoked
    call,     \* the arguments search_jobs_api runs with, and sample_size
    sent,     \* the query parameters of each GET this invocation issued
    outcome,  \* what the remote end answered
    cause,    \* the exception raised inside the try block, if any
    sres,     \* what search_jobs_api handed back
    ret,      \* what the invoked function handed to its caller
    tasks,    \* the locals of each invocation running concurrently
    tool      \* the request the protocol dispatcher call_tool is handling

vars == <<pc, op, call, sent, outcome, cause, sres, ret, tasks, tool>>

\* The state of the one invocation the first eight variables follow.
invocation == <<pc, op, call, sent, outcome, cause, sres, ret>>

\* The callers that may be inside the functions at the same time.
Tasks == {"t1", "t2"}

(***************************************************************************)
(* Values                                                                  *)
(***************************************************************************)
JNull == [t |-> "null"]
JStr(s) == [t |-> "str", s |-> s]
JInt(n) == [t |-> "int", n |-> n]
JObj(f) == [t |-> "obj", f |-> f]
JList(q) == [t |-> "list", q |-> q]
JText(c) == [t |-> "text", c |-> c]

EmptyObj == JObj(<<>>)
EmptyList == JList(<<>>)

Min(a, b) == IF a <= b THEN a ELSE b

\* Body(value), with the value computed once: a local variable of the code.
\* (TLC computes a LET definition anew at every use.)
Local(value, Body(_)) == CHOOSE r \in {Body(x) : x \in {value}} : TRUE

\* Python truthiness: None, "", 0, {} and [] are falsy.
Truthy(v) ==
    CASE v.t = "null" -> FALSE
      [] v.t = "str"  -> v.s # ""
      [] v.t = "int"  -> v.n # 0
      [] v.t = "obj"  -> DOMAIN v.f # {}
      [] v.t = "list" -> v.q # <<>>
      [] v.t = "text" -> v.c # <<>>

\* type(v).__name__, as it appears in the interpreter's error messages.
TypeName(v) ==
    CASE v.t = "null" -> "NoneType"
      [] v.t = "str"  -> "str"
      [] v.t = "int"  -> "int"
      [] v.t = "obj"  -> "dict"
      [] v.t = "list" -> "list"
      [] v.t = "text" -> "str"

Digit(d) == CASE d = 0 -> "0" [] d = 1 -> "1" [] d = 2 -> "2" [] d = 3 -> "3"
              [] d = 4 -> "4" [] d = 5 -> "5" [] d = 6 -> "6" [] d = 7 -> "7"
              [] d = 8 -> "8" [] d = 9 -> "9"

RECURSIVE Decimal(_)
Decimal(n) == IF n < 10 THEN Digit(n) ELSE Decimal(n \div 10) \o Digit(n % 10)

\* str(v) as an f-string renders it, for the scalars a label can be.
PyStr(v) ==
    CASE v.t = "null" -> "None"
      [] v.t = "str"  -> v.s
      [] v.t = "int"  -> IF v.n < 0 THEN "-" \o Decimal(-v.n) ELSE Decimal(v.n)

\* d.get(k, default) on a dict d: the stored value when the key is present
\* (a stored null included), the default only when the key is missing.
Get(d, k, default) == IF k \in DOMAIN d.f THEN d.f[k] ELSE default

\* Exceptions: the class the except clauses dispatch on, and str(e).
RequestException(text) == [cls |-> "RequestException", text |-> text]
OtherException(text) == [cls |-> "Exception", text |-> text]
NoExc == [cls |-> "none", text |-> ""]

\* v.get(...) on a value that is no dict.
NoGet(v) == OtherException("'" \o TypeName(v) \o "' object has no attribute 'get'")
\* for x in v, on a value that cannot be iterated.
NotIterable(v) == OtherException("'" \o TypeName(v) \o "' object is not iterable")
\* "key" in v, on such a value.
NoContains(v) ==
    OtherException("argument of type '" \o TypeName(v) \o "' is not iterable")

\* The first exception of a sequence of evaluation steps, in program order.
FirstExc(steps) ==
    Local(SelectSeq(steps, LAMBDA e : e.cls # "none"),
          LAMBDA raised : IF raised = <<>> THEN NoExc ELSE Head(raised))

(***************************************************************************)
(* search_jobs_api: one entry of data["result"] -> one job_info record     *)
(***************************************************************************)
Raise(e) == [exc |-> e, job |-> <<>>]

\* job.get(key, {}).get('caption', default): the nested label of a job field.
NestedExc(job, key) ==
    LET inner == Get(job, key, EmptyObj)
    IN  IF inner.t # "obj" THEN NoGet(inner) ELSE NoExc

NestedLabel(job, key, default) == Get(Get(job, key, EmptyObj), "caption", default)

\* for x in v: the elements a loop over v visits.
Elements(v) == IF v.t = "list" THEN v.q ELSE <<>>

IterExc(v) == IF v.t \in {"null", "int"} THEN NotIterable(v) ELSE NoExc

\* [x.get('caption', '') for x in job.get(key, [])]
LabelsExc(job, key) ==
    Local(Get(job, key, EmptyList), LAMBDA src :
        FirstExc(<<IterExc(src)>> \o
                 [i \in 1..Len(Elements(src)) |->
                    IF Elements(src)[i].t # "obj" THEN NoGet(Elements(src)[i])
                    ELSE NoExc]))

LabelsDeduplicated(job, key) ==
    Local(Elements(Get(job, key, EmptyList)), LAMBDA q :
        Local(SelectSeq([i \in 1..Len(q) |-> i],
                        LAMBDA i : ~\E j \in 1..(i - 1) :
                            Get(q[j], "caption", JStr("")) = Get(q[i], "caption", JStr(""))),
              LAMBDA at : [k \in 1..Len(at) |-> Get(q[at[k]], "caption", JStr(""))]))

Labels(job, key) ==
    Local(Elements(Get(job, key, EmptyList)), LAMBDA q :
        [i \in 1..Len(q) |-> Get(q[i], "caption", JStr(""))])

\* Lines 67-74. The steps that can raise, in program order.
SalaryExc(job) ==
    IF Truthy(Get(job, "id_Job_Donotdisplaysalary", JInt(0))) THEN NoExc
    ELSE IF NestedExc(job, "Salaryrange").cls # "none"
         THEN NestedExc(job, "Salaryrange")
    ELSE IF ~Truthy(NestedLabel(job, "Salaryrange", JNull)) THEN NoExc
    ELSE FirstExc(<<NestedExc(job, "id_Job_Currency"),
                    NestedExc(job, "id_Job_Interval")>>)

SalaryInfoNoHideCheck(job) ==
    IF SalaryExc([job EXCEPT !.f = [k \in DOMAIN job.f \ {"id_Job_Donotdisplaysalary"}
                                     |-> job.f[k]]]).cls # "none"
    THEN JNull
    ELSE LET salary_range == NestedLabel(job, "Salaryrange", JNull)
             currency == NestedLabel(job, "id_Job_Currency", JStr("SGD"))
             interval == NestedLabel(job, "id_Job_Interval", JStr("Month"))
         IN  IF Truthy(salary_range)
             THEN JStr(PyStr(currency) \o " " \o PyStr(salary_range)
                       \o " per " \o PyStr(interval))
             ELSE JNull

SalaryInfo(job) ==
    IF ~Truthy(Get(job, "id_Job_Donotdisplaysalary", JInt(0)))
    THEN LET salary_range == NestedLabel(job, "Salaryrange", JNull)
             currency == NestedLabel(job, "id_Job_Currency", JStr("SGD"))
             interval == NestedLabel(job, "id_Job_Interval", JStr("Month"))
         IN  IF Truthy(salary_range)
             THEN JStr(PyStr(currency) \o " " \o PyStr(salary_range)
                       \o " per " \o PyStr(interval))
             ELSE JNull
    ELSE JNull

(***************************************************************************)
(* Lines 76-82: the description. A description is a list of elements, each *)
(* a markup tag ("<p>", "</p>", "<br>") or one character of text.          *)
(***************************************************************************)
DescLimit == 500
Ellipsis == <<".", ".", ".">>

IsTag(x) == x \in {"<p>", "</p>", "<br>", "<b>", "</b>"}
IsSpace(x) == x \in {" ", "\n", "\t"}

\* BeautifulSoup(description, 'html.parser').get_text(): the text nodes,
\* concatenated with no separator.
GetText(c) == SelectSeq(c, LAMBDA x : ~IsTag(x))

\* The characters of c at the positions that satisfy Keep, in order.
Kept(c, Keep(_)) ==
    Local(SelectSeq([i \in 1..Len(c) |-> i], Keep),
          LAMBDA at : [k \in 1..Len(at) |-> c[at[k]]])

\* re.sub(r'\n+', '\n', text): of a run of newlines the last one stays.
CollapseNewlines(c) ==
    Kept(c, LAMBDA i : ~(c[i] = "\n" /\ i < Len(c) /\ c[i + 1] = "\n"))

\* str.strip(): what stays has a character that is no white space at or
\* before it, and one at or after it.
LStrip(c) == Kept(c, LAMBDA i : \E j \in 1..i : ~IsSpace(c[j]))

RStrip(c) == Kept(c, LAMBDA i : \E j \in i..Len(c) : ~IsSpace(c[j]))

Strip(c) == Local(LStrip(c), RStrip)

PlainText(c) ==
    Local(GetText(c), LAMBDA text : Local(CollapseNewlines(text), Strip))

TruncateAlwaysMarked(plain_text) ==
    SubSeq(plain_text, 1, Min(500, Len(plain_text))) \o <<".", ".", ".">>

\* Line 82.
Truncate(plain_text) ==
    IF Len(plain_text) > DescLimit
    THEN SubSeq(plain_text, 1, DescLimit) \o Ellipsis
    ELSE plain_text

Description(job) ==
    LET description == Get(job, "JobDescription", JText(<<>>))
    IN  IF Truthy(description)
        THEN JText(Local(PlainText(description.c), Truncate))
        ELSE description

(***************************************************************************)
(* Lines 63-103: the loop body                                             *)
(***************************************************************************)
BaseUrl == "https://www.findsgjobs.com/job/"

JobInfo(job, company) ==
    [job_id           |-> Get(job, "id", JStr("")),
     title            |-> Get(job, "Title", JStr("N/A")),
     company          |-> Get(company, "CompanyName", JStr("N/A")),
     url              |-> IF Truthy(Get(job, "id", JNull))
                          THEN JStr(BaseUrl \o PyStr(Get(job, "id", JStr(""))))
                          ELSE JStr(""),
     categories       |-> Labels(job, "JobCategory"),
     employment_type  |-> Labels(job, "EmploymentType"),
     location         |-> Labels(job, "id_Job_NearestMRTStation"),
     salary           |-> SalaryInfo(job),
     experience       |-> NestedLabel(job, "MinimumYearsofExperience", JStr("N/A")),
     education        |-> NestedLabel(job, "MinimumEducationLevel", JStr("N/A")),
     position_level   |-> NestedLabel(job, "id_Job_PositionLevel", JStr("N/A")),
     work_arrangement |-> NestedLabel(job, "id_Job_WorkArrangement", JStr("N/A")),
     skills           |-> Get(job, "id_Job_Skills", EmptyList),
     posted_date      |-> Get(job, "activation_date", JStr("N/A")),
     expires_date     |-> Get(job, "expiration_date", JStr("N/A")),
     description      |-> Description(job)]

\* The steps of the loop body that can raise, in program order.
ItemExc(job, company) ==
    FirstExc(<<SalaryExc(job),
               IF company.t # "obj" THEN NoGet(company) ELSE NoExc,
               LabelsExc(job, "JobCategory"),
               LabelsExc(job, "EmploymentType"),
               LabelsExc(job, "id_Job_NearestMRTStation"),
               NestedExc(job, "MinimumYearsofExperience"),
               NestedExc(job, "MinimumEducationLevel"),
               NestedExc(job, "id_Job_PositionLevel"),
               NestedExc(job, "id_Job_WorkArrangement")>>)

ParseItem(item) ==
    IF item.t # "obj" THEN Raise(NoGet(item))
    ELSE LET job == Get(item, "job", EmptyObj)
             company == Get(item, "company", EmptyObj)
         IN  IF job.t # "obj" THEN Raise(NoGet(job))
             ELSE Local(ItemExc(job, company), LAMBDA e :
                     IF e.cls # "none" THEN Raise(e)
                     ELSE [exc |-> NoExc, job |-> JobInfo(job, company)])

(***************************************************************************)
(* Lines 45-112: the parse of the decoded response                         *)
(***************************************************************************)
\* "key" in v
In(v, key) ==
    CASE v.t = "obj"  -> key \in DOMAIN v.f
      [] v.t = "list" -> \E i \in 1..Len(v.q) : v.q[i] = JStr(key)
      [] OTHER        -> FALSE

InExc(v) == IF v.t \in {"null", "int"} THEN NoContains(v) ELSE NoExc

\* v["key"], reached only when "key" in v held.
SubscriptExc(v) ==
    IF v.t = "list"
    THEN OtherException("list indices must be integers or slices, not str")
    ELSE NoExc

\* A loop that passes over an entry it cannot parse.
RECURSIVE ParseItemsSkipping(_, _)
ParseItemsSkipping(items, jobs) ==
    IF items = <<>> THEN [exc |-> [cls |-> "none", text |-> ""], jobs |-> jobs]
    ELSE Local(ParseItem(Head(items)), LAMBDA r :
            IF r.exc.cls # "none" THEN ParseItemsSkipping(Tail(items), jobs)
            ELSE ParseItemsSkipping(Tail(items), Append(jobs, r.job)))

\* The for loop of line 63: the jobs appended before the first exception.
RECURSIVE ParseItems(_, _)
ParseItems(items, jobs) ==
    IF items = <<>> THEN [exc |-> NoExc, jobs |-> jobs]
    ELSE Local(ParseItem(Head(items)), LAMBDA r :
            IF r.exc.cls # "none" THEN [exc |-> r.exc, jobs |-> jobs]
            ELSE ParseItems(Tail(items), Append(jobs, r.job)))

Threw(e) == [exc |-> e, value |-> <<>>]

SearchSuccessPagerCount(total_count, current_page, total_pages, jobs) ==
    [exc   |-> NoExc,
     value |-> [success         |-> TRUE,
                total_jobs      |-> total_count,
                current_page    |-> current_page,
                total_pages     |-> total_pages,
                results_on_page |-> IF total_count.t = "int"
                                    THEN total_count.n ELSE 0,
                jobs            |-> jobs]]

\* A job list kept at module level: a call appends to the jobs an earlier
\* call that has returned left in it.
SearchSuccessSharedJobs(total_count, current_page, total_pages, jobs) ==
    LET done == {t \in Tasks : /\ tasks[t].pc = "returned"
                               /\ tasks[t].sres.kind = "return"
                               /\ tasks[t].sres.value.success}
        shared == IF done = {} THEN <<>>
                  ELSE tasks[CHOOSE t \in done : TRUE].sres.value.jobs
    IN  [exc   |-> [cls |-> "none", text |-> ""],
         value |-> [success         |-> TRUE,
                    total_jobs      |-> total_count,
                    current_page    |-> current_page,
                    total_pages     |-> total_pages,
                    results_on_page |-> Len(shared \o jobs),
                    jobs            |-> shared \o jobs]]

SearchSuccessSwappedTotals(total_count, current_page, total_pages, jobs) ==
    [exc   |-> [cls |-> "none", text |-> ""],
     value |-> [success         |-> TRUE,
                total_jobs      |-> total_pages,
                current_page    |-> current_page,
                total_pages     |-> total_count,
                results_on_page |-> Len(jobs),
                jobs            |-> jobs]]

\* Lines 105-112.
SearchSuccess(total_count, current_page, total_pages, jobs) ==
    [exc   |-> NoExc,
     value |-> [success         |-> TRUE,
                total_jobs      |-> total_count,
                current_page    |-> current_page,
                total_pages     |-> total_pages,
                results_on_page |-> Len(jobs),
                jobs            |-> jobs]]

\* Lines 55-59 and 62-103, for a data value that supports "in".
ParseData(data, page) ==
    LET hasPager == In(data, "pager")
        pager == data.f["pager"]
        pagerExc == IF ~hasPager THEN NoExc
                    ELSE IF SubscriptExc(data).cls # "none" THEN SubscriptExc(data)
                    ELSE IF pager.t # "obj" THEN NoGet(pager)
                    ELSE NoExc
        total_count == IF hasPager THEN Get(pager, "record_count", JInt(0))
                       ELSE JInt(0)
        current_page == IF hasPager THEN Get(pager, "page", JInt(page))
                        ELSE JInt(page)
        total_pages == IF hasPager THEN Get(pager, "page_count", JInt(0))
                       ELSE JInt(0)
        hasResult == In(data, "result")
        result == data.f["result"]
        loop == IF hasResult THEN ParseItems(Elements(result), <<>>)
                ELSE [exc |-> NoExc, jobs |-> <<>>]
    IN  IF pagerExc.cls # "none" THEN Threw(pagerExc)
        ELSE IF hasResult /\ SubscriptExc(data).cls # "none"
             THEN Threw(SubscriptExc(data))
        ELSE IF hasResult /\ IterExc(result).cls # "none"
             THEN Threw(IterExc(result))
        ELSE Local(loop, LAMBDA done :
                IF done.exc.cls # "none" THEN Threw(done.exc)
                ELSE SearchSuccess(total_count, current_page, total_pages,
                                   done.jobs))

ParseResponse(json_response, page) ==
    IF InExc(json_response).cls # "none" THEN Threw(InExc(json_response))
    ELSE IF ~In(json_response, "data")
         THEN SearchSuccess(JInt(0), JInt(page), JInt(0), <<>>)
    ELSE IF SubscriptExc(json_response).cls # "none"
         THEN Threw(SubscriptExc(json_response))
    ELSE LET data == json_response.f["data"]
         IN  IF InExc(data).cls # "none" THEN Threw(InExc(data))
             ELSE ParseData(data, page)

(***************************************************************************)
(* Lines 32-43 and 114-123: the request, and the except clauses            *)
(***************************************************************************)
MaxPerPage == 20

ParamsUnclamped(keywords, page, per_page_count) ==
    [page |-> page, per_page_count |-> per_page_count, keywords |-> keywords]

\* Lines 34-38.
Params(keywords, page, per_page_count) ==
    [page           |-> page,
     per_page_count |-> Min(per_page_count, MaxPerPage),
     keywords       |-> keywords]

IssueGetTwice(requests, params) == Append(Append(requests, params), params)

\* Line 41: requests.get(base_url, params=params, timeout=10), once.
IssueGet(requests, params) == Append(requests, params)

\* What the remote end does with a request.
Timeout == [kind |-> "timeout"]
ConnectionError == [kind |-> "connection"]
Response(status, body) == [kind |-> "response", status |-> status, body |-> body]
Malformed == [t |-> "malformed"]

Host == "HTTPSConnectionPool(host='www.findsgjobs.com', port=443): "

\* requests.get raising, and response.raise_for_status() (requests raises
\* HTTPError for the statuses 400..599 and for no other).
TransportExc(remote) ==
    CASE remote.kind = "timeout" ->
            RequestException(Host \o "Read timed out. (read timeout=10)")
      [] remote.kind = "connection" ->
            RequestException(Host \o "Max retries exceeded with url: /apis/job/search")
      [] remote.kind = "response" /\ remote.status >= 400 /\ remote.status < 500 ->
            RequestException(Decimal(remote.status) \o " Client Error for url: "
                             \o "https://www.findsgjobs.com/apis/job/search")
      [] remote.kind = "response" /\ remote.status >= 500 /\ remote.status < 600 ->
            RequestException(Decimal(remote.status) \o " Server Error for url: "
                             \o "https://www.findsgjobs.com/apis/job/search")
      [] OTHER -> NoExc

\* response.json() on a body that is no JSON document. Which class the
\* decoding error has depends on the installed requests: since 2.27 it is
\* requests.exceptions.JSONDecodeError, a RequestException; before, a
\* ValueError.
JsonErrorClasses == {"RequestException", "Exception"}

JsonExc(cls) == [cls |-> cls, text |-> "Expecting value: line 1 column 1 (char 0)"]

\* Lines 40-112: the try block, as the exception it raises or its value.
TryBlock(remote, page, jsonErrorClass) ==
    IF TransportExc(remote).cls # "none" THEN Threw(TransportExc(remote))
    ELSE IF remote.body = Malformed THEN Threw(JsonExc(jsonErrorClass))
    ELSE ParseResponse(remote.body, page)

Return(value) == [kind |-> "return", value |-> value]
Propagate(e) == [kind |-> "raise", exc |-> e]

ExceptRequestExceptionOnly(e) ==
    IF e.cls = "RequestException"
    THEN Return([success |-> FALSE, error |-> "API request failed: " \o e.text])
    ELSE Propagate(e)

\* Lines 114-123.
Except(e) ==
    IF e.cls = "RequestException"
    THEN Return([success |-> FALSE, error |-> "API request failed: " \o e.text])
    ELSE Return([success |-> FALSE, error |-> "Unexpected error: " \o e.text])

\* search_jobs_api from the response on: what the call hands to its caller.
Handled(attempt) ==
    IF attempt.exc.cls # "none" THEN Except(attempt.exc)
    ELSE Return(attempt.value)

SearchOutcome(remote, page, jsonErrorClass) ==
    Local(TryBlock(remote, page, jsonErrorClass), Handled)

(***************************************************************************)
(* calculate_job_statistics. A counter dict is the sequence of its         *)
(* (key, count) entries in insertion order, which a Python dict keeps.     *)
(***************************************************************************)
TopCount == 5

HasKey(counts, key) == \E i \in 1..Len(counts) : counts[i].k = key

\* counts[key] = counts.get(key, 0) + 1
Increment(counts, key) ==
    IF HasKey(counts, key)
    THEN [i \in 1..Len(counts) |->
            IF counts[i].k = key THEN [k |-> key, n |-> counts[i].n + 1]
            ELSE counts[i]]
    ELSE Append(counts, [k |-> key, n |-> 1])

RECURSIVE CountLabelsOncePerJob(_, _)
CountLabelsOncePerJob(counts, labels) ==
    IF labels = <<>> THEN counts
    ELSE Local(IF Truthy(Head(labels))
                  /\ ~\E i \in 1..Len(Tail(labels)) : Tail(labels)[i] = Head(labels)
               THEN Increment(counts, Head(labels)) ELSE counts,
               LAMBDA next : CountLabelsOncePerJob(next, Tail(labels)))

\* Lines 155-157 (and 160-162, 165-167): for label in labels: if label: ...
RECURSIVE CountLabels(_, _)
CountLabels(counts, labels) ==
    IF labels = <<>> THEN counts
    ELSE Local(IF Truthy(Head(labels))
               THEN Increment(counts, Head(labels)) ELSE counts,
               LAMBDA next : CountLabels(next, Tail(labels)))

CountValueUnlessEmpty(counts, value) ==
    IF Truthy(value) THEN Increment(counts, value) ELSE counts

\* Lines 170-172 (and 175-177): a single-valued field.
CountValue(counts, value) ==
    IF Truthy(value) /\ value # JStr("N/A") THEN Increment(counts, value)
    ELSE counts

\* Counters kept at module level: a call starts from what an earlier call
\* that has returned left in them.
CountersLeftBehind ==
    LET done == {t \in Tasks : /\ tasks[t].pc = "returned"
                               /\ tasks[t].op = "calculate_job_statistics"
                               /\ tasks[t].ret.kind = "return"
                               /\ tasks[t].ret.value.success}
    IN  IF done = {}
        THEN [category |-> <<>>, employment_type |-> <<>>, location |-> <<>>,
              education |-> <<>>, experience |-> <<>>]
        ELSE LET left == tasks[CHOOSE t \in done : TRUE].ret.value.statistics
             IN  [category        |-> left.top_categories,
                  employment_type |-> left.employment_types,
                  location        |-> left.top_locations,
                  education       |-> left.education_requirements,
                  experience      |-> left.experience_requirements]

EmptyCounters ==
    [category |-> <<>>, employment_type |-> <<>>, location |-> <<>>,
     education |-> <<>>, experience |-> <<>>]

\* One iteration of the loop of line 153.
CountJob(c, job) ==
    [category        |-> CountLabels(c.category, job.categories),
     employment_type |-> CountLabels(c.employment_type, job.employment_type),
     location        |-> CountLabels(c.location, job.location),
     education       |-> CountValue(c.education, job.education),
     experience      |-> CountValue(c.experience, job.experience)]

RECURSIVE CountJobs(_, _)
CountJobs(c, jobs) ==
    IF jobs = <<>> THEN c
    ELSE Local(CountJob(c, Head(jobs)), LAMBDA next : CountJobs(next, Tail(jobs)))

RECURSIVE InsertByCountBeforeTies(_, _)
InsertByCountBeforeTies(sorted, e) ==
    IF sorted = <<>> THEN <<e>>
    ELSE IF Head(sorted).n > e.n
         THEN <<Head(sorted)>> \o InsertByCountBeforeTies(Tail(sorted), e)
    ELSE <<e>> \o sorted

\* sorted(items, key=lambda x: x[1], reverse=True): a stable sort, so an
\* entry goes after every entry already placed whose count is not smaller.
RECURSIVE InsertByCount(_, _)
InsertByCount(sorted, e) ==
    IF sorted = <<>> THEN <<e>>
    ELSE IF Head(sorted).n >= e.n THEN <<Head(sorted)>> \o InsertByCount(Tail(sorted), e)
    ELSE <<e>> \o sorted

RECURSIVE SortedByCount(_)
SortedByCount(counts) ==
    IF counts = <<>> THEN <<>>
    ELSE Local(SortedByCount(SubSeq(counts, 1, Len(counts) - 1)),
               LAMBDA sorted : InsertByCount(sorted, counts[Len(counts)]))

TopUntruncated(counts) == SortedByCount(counts)

\* dict(sorted(...)[:5])
Top(counts) ==
    Local(SortedByCount(counts), LAMBDA sorted :
        SubSeq(sorted, 1, Min(TopCount, Len(sorted))))

\* jobs_analyzed taken from the pager's record count, not from the sample.
StatisticsAnalyzedFromPager(keywords, result) ==
    LET jobs == result.jobs
        total_jobs == result.total_jobs
    IN  Local(CountJobs(EmptyCounters, jobs), LAMBDA c :
            [success              |-> TRUE,
             keyword              |-> keywords,
             total_jobs_in_market |-> total_jobs,
             jobs_analyzed        |-> IF total_jobs.t = "int" /\ total_jobs.n >= 0
                                      THEN total_jobs.n ELSE 0,
             statistics |->
                [top_categories          |-> Top(c.category),
                 employment_types        |-> c.employment_type,
                 top_locations           |-> Top(c.location),
                 education_requirements  |-> c.education,
                 experience_requirements |-> c.experience]])

\* Lines 143-191.
Statistics(keywords, result) ==
    LET jobs == result.jobs
        total_jobs == result.total_jobs
    IN  Local(CountJobs(EmptyCounters, jobs), LAMBDA c :
            [success              |-> TRUE,
             keyword              |-> keywords,
             total_jobs_in_market |-> total_jobs,
             jobs_analyzed        |-> Len(jobs),
             statistics |->
                [top_categories          |-> Top(c.category),
                 employment_types        |-> c.employment_type,
                 top_locations           |-> Top(c.location),
                 education_requirements  |-> c.education,
                 experience_requirements |-> c.experience]])

AfterSearchWrapped(keywords, searched) ==
    IF searched.kind = "raise" THEN searched
    ELSE IF ~searched.value.success
         THEN Return([success |-> FALSE,
                      error |-> "Statistics failed: " \o searched.value.error])
    ELSE Return(Statistics(keywords, searched.value))

\* Lines 140-191: what calculate_job_statistics does with the outcome of
\* its call of search_jobs_api (an exception of the callee passes through).
AfterSearch(keywords, searched) ==
    IF searched.kind = "raise" THEN searched
    ELSE IF ~searched.value.success THEN Return(searched.value)
    ELSE Return(Statistics(keywords, searched.value))

(***************************************************************************)
(* The state machine: a caller invokes one of the two functions, the GET   *)
(* is answered (or fails), the function returns, the caller takes the      *)
(* result.                                                                 *)
(***************************************************************************)
Nothing == [kind |-> "none"]
NoCall == [keywords |-> "", page |-> 0, per_page_count |-> 0, sample_size |-> 0]

\* The locals of an invocation that has not started.
NoLocals ==
    [pc |-> "idle", op |-> "none", call |-> NoCall, sent |-> <<>>,
     outcome |-> Nothing, cause |-> NoExc, sres |-> Nothing, ret |-> Nothing]

\* The dispatcher with no request in hand.
NoRequest ==
    [pc |-> "idle", name |-> "", arguments |-> EmptyObj, reply |-> Nothing]

Init ==
    /\ pc = "idle"
    /\ op = "none"
    /\ call = NoCall
    /\ sent = <<>>
    /\ outcome = Nothing
    /\ cause = NoExc
    /\ sres = Nothing
    /\ ret = Nothing
    /\ tasks = [t \in Tasks |-> NoLocals]
    /\ tool = NoRequest

\* search_jobs_api(keywords, page, per_page_count), up to the GET.
CallSearch(keywords, page, per_page_count) ==
    /\ pc = "idle"
    /\ pc' = "waiting"
    /\ op' = "search_jobs_api"
    /\ call' = [keywords |-> keywords, page |-> page,
                per_page_count |-> per_page_count, sample_size |-> 0]
    /\ sent' = IssueGet(<<>>, Params(keywords, page, per_page_count))
    /\ UNCHANGED <<outcome, cause, sres, ret>>

StatsPerPageUnclamped(sample_size) == sample_size

\* Line 138: per_page_count=min(sample_size, 20)
StatsPerPage(sample_size) == Min(sample_size, MaxPerPage)

\* calculate_job_statistics(keywords, sample_size), up to the GET of the
\* search_jobs_api call of line 138.
CallStatistics(keywords, sample_size) ==
    /\ pc = "idle"
    /\ pc' = "waiting"
    /\ op' = "calculate_job_statistics"
    /\ call' = [keywords |-> keywords, page |-> 1,
                per_page_count |-> StatsPerPage(sample_size),
                sample_size |-> sample_size]
    /\ sent' = IssueGet(<<>>, Params(keywords, 1, StatsPerPage(sample_size)))
    /\ UNCHANGED <<outcome, cause, sres, ret>>

\* The rest of the invocation, once the remote end has answered.
Complete(remote, jsonErrorClass) ==
    /\ pc = "waiting"
    /\ pc' = "returned"
    /\ outcome' = remote
    /\ \E attempt \in {TryBlock(remote, call.page, jsonErrorClass)} :
       \E searched \in {Handled(attempt)} :
          /\ cause' = attempt.exc
          /\ sres' = searched
          /\ ret' = IF op = "calculate_job_statistics"
                    THEN AfterSearch(call.keywords, searched)
                    ELSE searched
    /\ UNCHANGED <<op, call, sent>>

\* requests.get raises: no response arrived.
RequestFails(remote) == Complete(remote, "Exception")

\* A response whose body decodes.
Responds(status, body) == Complete(Response(status, body), "Exception")

\* A response whose body is no JSON document (an error page, say).
RespondsMalformed(status, jsonErrorClass) ==
    Complete(Response(status, Malformed), jsonErrorClass)

\* The caller takes the result; the invocation's locals are gone.
TakeResult ==
    /\ pc = "returned"
    /\ pc' = "idle"
    /\ op' = "none"
    /\ call' = NoCall
    /\ sent' = <<>>
    /\ outcome' = Nothing
    /\ cause' = NoExc
    /\ sres' = Nothing
    /\ ret' = Nothing

(***************************************************************************)
(* Inputs: the arguments callers pass and the answers the remote end can   *)
(* give.                                                                   *)
(***************************************************************************)
MaxJobs == 2

Label(s) == JObj([caption |-> JStr(s)])

\* Every sequence over S of length at most n.
SeqsUpTo(S, n) == UNION {[1..k -> S] : k \in 0..n}

Keywords == {"cook"}
Pages == {1, 3}
PerPageCounts == {-1, 0, 10, 20, 25}
SampleSizes == {-1, 1, 20, 30}

\* Statuses raise_for_status lets through, and statuses it raises for.
PassingStatuses == {200, 300}
ErrorStatuses == {404, 503}
TransportFailures == {Timeout, ConnectionError}

FullJob ==
    JObj([id                        |-> JStr("J1"),
          Title                     |-> JStr("Cook"),
          JobCategory               |-> JList(<<Label("F&B"), Label("Hospitality")>>),
          EmploymentType            |-> JList(<<Label("Full Time")>>),
          id_Job_NearestMRTStation  |-> JList(<<Label("Bedok")>>),
          id_Job_Donotdisplaysalary |-> JInt(0),
          Salaryrange               |-> Label("2000-3000"),
          id_Job_Currency           |-> Label("SGD"),
          id_Job_Interval           |-> Label("Month"),
          MinimumYearsofExperience  |-> Label("1 year"),
          MinimumEducationLevel     |-> Label("Diploma"),
          id_Job_PositionLevel      |-> Label("Junior"),
          id_Job_WorkArrangement    |-> Label("On-site"),
          id_Job_Skills             |-> JList(<<JStr("Cooking")>>),
          activation_date           |-> JStr("2025-11-01"),
          expiration_date           |-> JStr("2025-12-01"),
          JobDescription            |-> JText(<<"<p>", "H", "i", "</p>">>)])

FullEntry == JObj([job |-> FullJob, company |-> JObj([CompanyName |-> JStr("Acme")])])

JobOnly(fields) == JObj([job |-> JObj(fields)])

\* Entries of data["result"]: complete, empty, with a null where a value
\* or a container is expected.
SearchEntries ==
    {FullEntry,
     EmptyObj,
     JNull,
     JObj([job |-> JNull]),
     JObj([job |-> EmptyObj, company |-> JNull]),
     JobOnly([Title |-> JNull]),
     JobOnly([JobCategory |-> JNull]),
     JobOnly([JobCategory |-> JList(<<Label("F&B"), EmptyObj, JNull>>)]),
     JobOnly([Salaryrange |-> JNull]),
     JobOnly([MinimumEducationLevel |-> JObj([caption |-> JNull])]),
     JobOnly([id_Job_Skills |-> JNull, JobDescription |-> JNull])}

FullPager ==
    JObj([record_count |-> JInt(150), page |-> JInt(1), page_count |-> JInt(8)])

\* The ways a key of data can be present or missing.
PagerOptions == {<<>>, [pager |-> JNull], [pager |-> EmptyObj], [pager |-> FullPager]}

ResultOptions(entries) ==
    {<<>>, [result |-> JNull]} \cup
    {[result |-> JList(q)] : q \in SeqsUpTo(entries, MaxJobs)}

DataBodies(entries) ==
    {JObj([data |-> JObj(p @@ r)]) : p \in PagerOptions, r \in ResultOptions(entries)}

OddBodies ==
    {JNull, EmptyList, EmptyObj, JObj([data |-> JNull]), JObj([data |-> EmptyList])}

SearchBodies == OddBodies \cup DataBodies(SearchEntries)

(***************************************************************************)
(* Spec: search_jobs_api against every answer of the remote end            *)
(***************************************************************************)
Next ==
    \/ /\ pc = "idle"
       /\ \E k \in Keywords, p \in Pages, n \in PerPageCounts : CallSearch(k, p, n)
       /\ UNCHANGED <<tasks, tool>>
    \/ /\ pc = "waiting"
       /\ \E f \in TransportFailures : RequestFails(f)
       /\ UNCHANGED <<tasks, tool>>
    \/ /\ pc = "waiting"
       /\ \E st \in PassingStatuses \cup ErrorStatuses, c \in JsonErrorClasses :
            RespondsMalformed(st, c)
       /\ UNCHANGED <<tasks, tool>>
    \/ /\ pc = "waiting"
       /\ \E st \in PassingStatuses, b \in SearchBodies : Responds(st, b)
       /\ UNCHANGED <<tasks, tool>>
    \/ TakeResult /\ UNCHANGED <<tasks, tool>>

Spec == Init /\ [][Next]_vars

(***************************************************************************)
(* Claims about search_jobs_api, checked under Spec                        *)
(***************************************************************************)
SearchReturned == pc = "returned" /\ op = "search_jobs_api"

Failure(r) == r.kind = "return" /\ r.value.success = FALSE
Success(r) == r.kind = "return" /\ r.value.success = TRUE

\* C1: search_jobs_api never raises to its caller: whatever the arguments,
\* the remote answer and the parse did, the call returns a result map, and
\* when an exception occurred inside it the map has success = false and an
\* error message.
C1_NeverRaises ==
    SearchReturned =>
        /\ ret.kind = "return"
        /\ cause.cls # "none" =>
              /\ ret.value.success = FALSE
              /\ DOMAIN ret.value = {"success", "error"}
              /\ ret.value.error # ""

\* A parse of a decoded response raised, and the caller got a failure map.
C1_Witness ==
    /\ SearchReturned
    /\ outcome.kind = "response" /\ outcome.body # Malformed
    /\ cause.cls = "Exception"
    /\ Failure(ret)

\* C2: the per_page_count transmitted is min(per_page_count, 20): never
\* above 20, and a value of 20 or less (zero and negatives too) unchanged.
C2_ClampedPerPage ==
    (pc # "idle" /\ op = "search_jobs_api") =>
        \A i \in 1..Len(sent) :
            /\ sent[i].per_page_count <= 20
            /\ call.per_page_count <= 20 =>
                  sent[i].per_page_count = call.per_page_count
            /\ call.per_page_count > 20 => sent[i].per_page_count = 20

\* A request of 25 per page went out as 20.
C2_Witness ==
    /\ op = "search_jobs_api" /\ pc = "waiting"
    /\ call.per_page_count = 25
    /\ Len(sent) = 1 /\ sent[1].per_page_count = 20

\* C3: in a successful result, results_on_page is the length of jobs.
C3_ResultsOnPage ==
    (SearchReturned /\ Success(ret)) =>
        ret.value.results_on_page = Len(ret.value.jobs)

\* Two jobs came back although 25 were asked for and the pager counts 150.
C3_Witness ==
    /\ SearchReturned /\ Success(ret)
    /\ call.per_page_count = 25
    /\ ret.value.total_jobs = JInt(150)
    /\ Len(ret.value.jobs) = 2
    /\ ret.value.results_on_page = 2

IsTransportFailure(remote) ==
    \/ remote.kind \in {"timeout", "connection"}
    \/ remote.kind = "response" /\ ~(remote.status >= 200 /\ remote.status < 300)

\* C4: a failed call classifies its cause: a transport failure (timeout,
\* connection error, non-2xx status) gives success = false and an error
\* beginning "API request failed: " followed by the transport error text;
\* any other exception of the parse gives success = false and an error
\* embedding that exception's text; malformed JSON is a failure result.
C4_FailureClassified ==
    SearchReturned =>
        /\ IsTransportFailure(outcome) =>
              /\ Failure(ret)
              /\ cause.cls = "RequestException"
              /\ ret.value.error = "API request failed: " \o cause.text
        /\ (~IsTransportFailure(outcome) /\ cause.cls # "none") =>
              /\ Failure(ret)
              /\ ret.value.error \in {"API request failed: " \o cause.text,
                                      "Unexpected error: " \o cause.text}
        /\ (outcome.kind = "response" /\ outcome.body = Malformed) => Failure(ret)

\* C7: an invocation issues exactly one GET, and no second one after a
\* transport failure, an error status or a parsing error.
C7_OneGet ==
    /\ pc = "idle" => sent = <<>>
    /\ pc # "idle" => Len(sent) = 1
    /\ (pc = "returned" /\ cause.cls # "none") => Len(sent) = 1

\* The call failed and returned with its one request made.
C7_Witness ==
    /\ SearchReturned
    /\ outcome.kind = "response" /\ outcome.status = 503
    /\ Failure(ret)
    /\ Len(sent) = 1

\* The entries of data["result"] the returned jobs were made from.
SourceItems == outcome.body.f["data"].f["result"].q

ScalarFields ==
    {"job_id", "title", "company", "url", "experience", "education",
     "position_level", "work_arrangement", "skills", "posted_date",
     "expires_date", "description"}

Omitted(d, key) == key \notin DOMAIN d.f

OmittedLabel(job, key) == Omitted(job, key) \/ Omitted(job.f[key], "caption")

\* The record of an entry carries the default of every field the entry omits.
DefaultsApplied(item, r) ==
    LET job == Get(item, "job", EmptyObj)
        company == Get(item, "company", EmptyObj)
    IN  /\ Omitted(job, "id") => r.job_id = JStr("") /\ r.url = JStr("")
        /\ Omitted(job, "Title") => r.title = JStr("N/A")
        /\ Omitted(company, "CompanyName") => r.company = JStr("N/A")
        /\ Omitted(job, "JobCategory") => r.categories = <<>>
        /\ Omitted(job, "EmploymentType") => r.employment_type = <<>>
        /\ Omitted(job, "id_Job_NearestMRTStation") => r.location = <<>>
        /\ OmittedLabel(job, "MinimumYearsofExperience") => r.experience = JStr("N/A")
        /\ OmittedLabel(job, "MinimumEducationLevel") => r.education = JStr("N/A")
        /\ OmittedLabel(job, "id_Job_PositionLevel") => r.position_level = JStr("N/A")
        /\ OmittedLabel(job, "id_Job_WorkArrangement") => r.work_arrangement = JStr("N/A")
        /\ Omitted(job, "id_Job_Skills") => r.skills = EmptyList
        /\ Omitted(job, "activation_date") => r.posted_date = JStr("N/A")
        /\ Omitted(job, "expiration_date") => r.expires_date = JStr("N/A")
        /\ Omitted(job, "JobDescription") => r.description = JText(<<>>)

\* C6: in every JobRecord of a successful search every field other than
\* salary holds a non-null value; a field the source entry omits carries
\* its default ("N/A", empty string, empty sequence), never a null.
C6_NoNullField ==
    (SearchReturned /\ Success(ret)) =>
        \A i \in 1..Len(ret.value.jobs) :
            /\ \A f \in ScalarFields : ret.value.jobs[i][f] # JNull
            /\ DefaultsApplied(SourceItems[i], ret.value.jobs[i])

\* The part of C6 the code keeps: defaults for the fields an entry omits.
C6_DefaultsForOmitted ==
    (SearchReturned /\ Success(ret)) =>
        \A i \in 1..Len(ret.value.jobs) :
            DefaultsApplied(SourceItems[i], ret.value.jobs[i])

\* The pagination block of the response searched, when it has one.
HasPager ==
    /\ outcome.body.t = "obj" /\ ~Omitted(outcome.body, "data")
    /\ outcome.body.f["data"].t = "obj"
    /\ ~Omitted(outcome.body.f["data"], "pager")

SourcePager == outcome.body.f["data"].f["pager"]

\* C15: for a successful search, when the response has a pagination block
\* total_jobs, current_page and total_pages are the block's record_count,
\* page and page_count; when it has none, total_jobs and total_pages are 0
\* and current_page is the page passed in.
C15_Pagination ==
    (SearchReturned /\ Success(ret)) =>
        IF HasPager
        THEN /\ ~Omitted(SourcePager, "record_count") =>
                    ret.value.total_jobs = SourcePager.f["record_count"]
             /\ ~Omitted(SourcePager, "page") =>
                    ret.value.current_page = SourcePager.f["page"]
             /\ ~Omitted(SourcePager, "page_count") =>
                    ret.value.total_pages = SourcePager.f["page_count"]
        ELSE /\ ret.value.total_jobs = JInt(0)
             /\ ret.value.current_page = JInt(call.page)
             /\ ret.value.total_pages = JInt(0)

\* Page 3 was asked for and the block reports record_count = 150, page = 1,
\* page_count = 8: the result reports 150, 1 and 8.
C15_Witness ==
    /\ SearchReturned /\ Success(ret)
    /\ call.page = 3
    /\ HasPager /\ SourcePager = FullPager
    /\ ret.value.total_jobs = JInt(150)
    /\ ret.value.current_page = JInt(1)
    /\ ret.value.total_pages = JInt(8)

\* The response searched has a results list.
HasResultList ==
    /\ outcome.body.t = "obj" /\ ~Omitted(outcome.body, "data")
    /\ outcome.body.f["data"].t = "obj"
    /\ ~Omitted(outcome.body.f["data"], "result")
    /\ outcome.body.f["data"].f["result"].t = "list"

\* C21: a successful search over a response with a results list returns
\* exactly one JobRecord per entry of that list, in the list's order: none
\* skipped, merged or reordered; an entry that cannot be parsed never
\* leaves a success result with a shorter jobs sequence.
C21_OneRecordPerEntry ==
    (SearchReturned /\ Success(ret) /\ HasResultList) =>
        /\ Len(ret.value.jobs) = Len(SourceItems)
        /\ \A i \in 1..Len(SourceItems) :
              /\ ParseItem(SourceItems[i]).exc.cls = "none"
              /\ ret.value.jobs[i] = ParseItem(SourceItems[i]).job

\* Two different entries came back as two records, in the order sent.
C21_Witness ==
    /\ SearchReturned /\ Success(ret) /\ HasResultList
    /\ SourceItems = <<FullEntry, EmptyObj>>
    /\ Len(ret.value.jobs) = 2
    /\ ret.value.jobs[1].title = JStr("Cook")
    /\ ret.value.jobs[2].title = JStr("N/A")

(***************************************************************************)
(* SpecSalary: search_jobs_api over entries that differ in the salary      *)
(* fields of the job                                                       *)
(***************************************************************************)
MaxSalaryJobs == 1

HideOptions ==
    {<<>>, [id_Job_Donotdisplaysalary |-> JInt(0)],
           [id_Job_Donotdisplaysalary |-> JInt(1)]}

RangeOptions ==
    {<<>>, [Salaryrange |-> JNull], [Salaryrange |-> EmptyObj],
           [Salaryrange |-> Label("")],
           [Salaryrange |-> JObj([caption |-> JNull])],
           [Salaryrange |-> Label("2000-3000")]}

CurrencyOptions ==
    {<<>>, [id_Job_Currency |-> JNull], [id_Job_Currency |-> EmptyObj],
           [id_Job_Currency |-> Label("USD")]}

IntervalOptions == {<<>>, [id_Job_Interval |-> Label("Year")]}

SalaryEntries ==
    {JObj([job |-> JObj(h @@ r @@ c @@ i)]) :
        h \in HideOptions, r \in RangeOptions,
        c \in CurrencyOptions, i \in IntervalOptions}

SalaryBodies ==
    {JObj([data |-> JObj([result |-> JList(q)])]) :
        q \in SeqsUpTo(SalaryEntries, MaxSalaryJobs)}

NextSalary ==
    \/ /\ pc = "idle"
       /\ \E k \in Keywords, p \in Pages : CallSearch(k, p, 10)
       /\ UNCHANGED <<tasks, tool>>
    \/ /\ pc = "waiting"
       /\ \E b \in SalaryBodies : Responds(200, b)
       /\ UNCHANGED <<tasks, tool>>
    \/ TakeResult /\ UNCHANGED <<tasks, tool>>

SpecSalary == Init /\ [][NextSalary]_vars

\* The hide-salary flag, the salary-range label and the currency and
\* interval labels of an entry, read off the source.
HideSalary(job) ==
    ~Omitted(job, "id_Job_Donotdisplaysalary")
    /\ Truthy(job.f["id_Job_Donotdisplaysalary"])

RangeLabelNonEmpty(job) ==
    /\ ~Omitted(job, "Salaryrange")
    /\ job.f["Salaryrange"].t = "obj"
    /\ ~Omitted(job.f["Salaryrange"], "caption")
    /\ Truthy(job.f["Salaryrange"].f["caption"])

LabelOr(job, key, fallback) ==
    IF OmittedLabel(job, key) THEN fallback ELSE job.f[key].f["caption"].s

\* C5: for every job entry of a successful search, salary is present
\* exactly when the hide-salary flag is falsy and the salary-range label is
\* non-empty; with the flag true it is absent whatever the range; when
\* present it reads "{currency} {range} per {interval}", currency falling
\* back to "SGD" and interval to "Month" when their label is absent.
C5_Salary ==
    (SearchReturned /\ Success(ret)) =>
        \A i \in 1..Len(ret.value.jobs) :
            LET job == Get(SourceItems[i], "job", EmptyObj)
                salary == ret.value.jobs[i].salary
            IN  /\ salary # JNull <=> (~HideSalary(job) /\ RangeLabelNonEmpty(job))
                /\ HideSalary(job) => salary = JNull
                /\ salary # JNull =>
                      salary = JStr(LabelOr(job, "id_Job_Currency", "SGD") \o " "
                                    \o job.f["Salaryrange"].f["caption"].s \o " per "
                                    \o LabelOr(job, "id_Job_Interval", "Month"))

\* A job that hides its salary although it has a range has none in its
\* record.
C5_Witness ==
    /\ SearchReturned /\ Success(ret)
    /\ Len(ret.value.jobs) = 1
    /\ LET job == Get(SourceItems[1], "job", EmptyObj)
       IN  HideSalary(job) /\ RangeLabelNonEmpty(job)
    /\ ret.value.jobs[1].salary = JNull

(***************************************************************************)
(* SpecStats: calculate_job_statistics over samples that differ in the     *)
(* fields it counts                                                        *)
(***************************************************************************)
Labelled(key, names) ==
    JobOnly(key :> JList([i \in 1..Len(names) |->
                            IF names[i] = "" THEN EmptyObj ELSE Label(names[i])]))

\* One entry per shape of a counted field; "" stands for an object with no
\* caption, whose label the search client turns into ''.
StatsEntries ==
    {FullEntry,
     EmptyObj,
     Labelled("JobCategory", <<"F&B", "Hospitality", "F&B">>),
     Labelled("JobCategory", <<"Retail", "Logistics", "Admin", "IT">>),
     Labelled("JobCategory", <<"Sales", "IT", "Security", "IT">>),
     Labelled("JobCategory", <<"", "F&B">>),
     Labelled("EmploymentType", <<"Full Time", "Part Time", "Full Time">>),
     Labelled("id_Job_NearestMRTStation", <<"Bedok", "", "Bedok">>),
     JobOnly([MinimumEducationLevel |-> Label("Degree"),
              MinimumYearsofExperience |-> Label("2 years")]),
     JobOnly([MinimumEducationLevel |-> Label("N/A"),
              MinimumYearsofExperience |-> Label("")]),
     JobOnly([MinimumEducationLevel |-> JObj([caption |-> JNull])])}

StatsBodies ==
    OddBodies \cup
    {JObj([data |-> JObj(p @@ [result |-> JList(q)])]) :
        p \in {<<>>, [pager |-> FullPager]},
        q \in SeqsUpTo(StatsEntries, MaxJobs)}

NextStats ==
    \/ /\ pc = "idle"
       /\ \E k \in Keywords, n \in SampleSizes : CallStatistics(k, n)
       /\ UNCHANGED <<tasks, tool>>
    \/ /\ pc = "waiting"
       /\ \E f \in TransportFailures : RequestFails(f)
       /\ UNCHANGED <<tasks, tool>>
    \/ /\ pc = "waiting"
       /\ \E st \in PassingStatuses \cup ErrorStatuses, c \in JsonErrorClasses :
            RespondsMalformed(st, c)
       /\ UNCHANGED <<tasks, tool>>
    \/ /\ pc = "waiting"
       /\ \E b \in StatsBodies : Responds(200, b)
       /\ UNCHANGED <<tasks, tool>>
    \/ TakeResult /\ UNCHANGED <<tasks, tool>>

SpecStats == Init /\ [][NextStats]_vars

StatsReturned == pc = "returned" /\ op = "calculate_job_statistics"

\* C8: when the underlying search fails, calculate_job_statistics returns
\* exactly the failure result the search produced, nothing added or
\* wrapped, and computes no statistics.
C8_FailureUnchanged ==
    (StatsReturned /\ Failure(sres)) =>
        /\ ret = sres
        /\ DOMAIN ret.value = {"success", "error"}

\* The search failed on a 503 and the caller of the statistics got the
\* search's own failure map.
C8_Witness ==
    /\ StatsReturned
    /\ outcome.kind = "response" /\ outcome.status = 503
    /\ Failure(sres)
    /\ ret.value.error = "API request failed: " \o cause.text

\* Helpers of the counting claims.
Occurrences(key, labels) == Cardinality({i \in 1..Len(labels) : labels[i] = key})

NonEmpty(labels) == SelectSeq(labels, Truthy)

RECURSIVE AllLabels(_, _)
AllLabels(jobs, field) ==
    IF jobs = <<>> THEN <<>>
    ELSE Head(jobs)[field] \o AllLabels(Tail(jobs), field)

Range(q) == {q[i] : i \in 1..Len(q)}

CountOf(counts, key) ==
    IF HasKey(counts, key)
    THEN (CHOOSE e \in Range(counts) : e.k = key).n
    ELSE 0

RECURSIVE Total(_)
Total(counts) == IF counts = <<>> THEN 0 ELSE Head(counts).n + Total(Tail(counts))

Keys(counts) == {counts[i].k : i \in 1..Len(counts)}

TaxonomyFields == {"categories", "employment_type", "location"}

CounterOf(c, field) ==
    CASE field = "categories"      -> c.category
      [] field = "employment_type" -> c.employment_type
      [] field = "location"        -> c.location

\* The counters the loop of line 153 ends with, for the sample searched.
SampleCounters == CountJobs(EmptyCounters, sres.value.jobs)

\* C9 as claimed: one increment per category string per job: a job with no
\* categories adds nothing, a job with ["A","B","A"] adds 2 to A, a job with
\* 3 categories adds 3 increments; the same for employment types and
\* locations.
C9_OneIncrementPerLabel ==
    (StatsReturned /\ Success(ret)) =>
        \A field \in TaxonomyFields :
            /\ \A i \in 1..Len(sres.value.jobs) :
                  LET labels == sres.value.jobs[i][field]
                      added == CounterOf(CountJob(EmptyCounters, sres.value.jobs[i]),
                                         field)
                  IN  /\ Total(added) = Len(labels)
                      /\ \A key \in Range(labels) :
                            CountOf(added, key) = Occurrences(key, labels)
            /\ LET all == AllLabels(sres.value.jobs, field)
               IN  \A key \in Range(all) :
                      CountOf(CounterOf(SampleCounters, field), key)
                          = Occurrences(key, all)

\* C9 as amended: one increment per non-empty category string per job; an
\* empty string (the label of a category object with no caption) is not
\* counted. The same for employment types and locations, and the returned
\* employment_types map is that counter.
C9_OneIncrementPerNonEmptyLabel ==
    (StatsReturned /\ Success(ret)) =>
        /\ \A field \in TaxonomyFields :
            /\ \A i \in 1..Len(sres.value.jobs) :
                  LET labels == sres.value.jobs[i][field]
                      added == CounterOf(CountJob(EmptyCounters, sres.value.jobs[i]),
                                         field)
                  IN  /\ Total(added) = Len(NonEmpty(labels))
                      /\ \A key \in Range(labels) :
                            CountOf(added, key) =
                                IF Truthy(key) THEN Occurrences(key, labels) ELSE 0
            /\ LET all == AllLabels(sres.value.jobs, field)
                   counter == CounterOf(SampleCounters, field)
               IN  /\ Keys(counter) = Range(NonEmpty(all))
                   /\ \A key \in Keys(counter) :
                         CountOf(counter, key) = Occurrences(key, all)
        /\ ret.value.statistics.employment_types = SampleCounters.employment_type

\* A job with categories F&B, Hospitality, F&B added 2 to F&B.
C9_Witness ==
    /\ StatsReturned /\ Success(ret)
    /\ Len(sres.value.jobs) = 1
    /\ sres.value.jobs[1].categories
         = <<JStr("F&B"), JStr("Hospitality"), JStr("F&B")>>
    /\ ret.value.statistics.top_categories
         = <<[k |-> JStr("F&B"), n |-> 2], [k |-> JStr("Hospitality"), n |-> 1]>>

\* C10 as claimed: top_categories has at most 5 entries, and when fewer
\* than 5 distinct categories occur in the sample it holds all of them with
\* their counts and no other entry.
C10_TopCategories ==
    (StatsReturned /\ Success(ret)) =>
        LET top == ret.value.statistics.top_categories
            all == AllLabels(sres.value.jobs, "categories")
        IN  /\ Len(top) <= 5
            /\ Cardinality(Range(all)) < 5 =>
                  /\ Keys(top) = Range(all)
                  /\ Len(top) = Cardinality(Range(all))
                  /\ \A key \in Keys(top) : CountOf(top, key) = Occurrences(key, all)

\* C10 as amended: at most 5 entries, and when fewer than 5 distinct
\* non-empty categories occur in the sample, all of them with their counts
\* and no other entry.
C10_TopNonEmptyCategories ==
    (StatsReturned /\ Success(ret)) =>
        LET top == ret.value.statistics.top_categories
            all == NonEmpty(AllLabels(sres.value.jobs, "categories"))
        IN  /\ Len(top) <= 5
            /\ Cardinality(Range(all)) < 5 =>
                  /\ Keys(top) = Range(all)
                  /\ Len(top) = Cardinality(Range(all))
                  /\ \A key \in Keys(top) : CountOf(top, key) = Occurrences(key, all)

\* Six distinct categories in the sample, five of them kept.
C10_Witness ==
    /\ StatsReturned /\ Success(ret)
    /\ Cardinality(Range(AllLabels(sres.value.jobs, "categories"))) = 6
    /\ Len(ret.value.statistics.top_categories) = 5

\* C11: in every successful result of calculate_job_statistics,
\* jobs_analyzed is at most the requested sample_size clamped to 20 and at
\* most total_jobs_in_market.
C11_JobsAnalyzedBounded ==
    (StatsReturned /\ Success(ret)) =>
        /\ ret.value.jobs_analyzed <= Min(call.sample_size, MaxPerPage)
        /\ ret.value.total_jobs_in_market.t = "int"
        /\ ret.value.jobs_analyzed <= ret.value.total_jobs_in_market.n

\* Where a key is first met in the labels of the sample, in sample order.
FirstMet(key, labels) == CHOOSE i \in 1..Len(labels) :
    /\ labels[i] = key
    /\ \A j \in 1..(i - 1) : labels[j] # key

\* b is ranked after a: a smaller count, or the same count and met later.
RankedAfter(a, b, labels) ==
    \/ Occurrences(b, labels) < Occurrences(a, labels)
    \/ /\ Occurrences(b, labels) = Occurrences(a, labels)
       /\ FirstMet(a, labels) < FirstMet(b, labels)

RankedFields == {<<"top_categories", "categories">>, <<"top_locations", "location">>}

\* C17: top_categories and top_locations list their entries in descending
\* order of count, entries with equal counts in the order their key was
\* first met in the sample, and keep the first 5 of that ordering: every
\* key left out is ranked after every key kept.
C17_RankedStable ==
    (StatsReturned /\ Success(ret)) =>
        \A f \in RankedFields :
            LET top == ret.value.statistics[f[1]]
                labels == NonEmpty(AllLabels(sres.value.jobs, f[2]))
            IN  /\ Len(top) = Min(5, Cardinality(Range(labels)))
                /\ \A i \in 1..Len(top) :
                      /\ top[i].k \in Range(labels)
                      /\ top[i].n = Occurrences(top[i].k, labels)
                /\ \A i, j \in 1..Len(top) :
                      i < j => RankedAfter(top[i].k, top[j].k, labels)
                /\ \A key \in Range(labels) \ Keys(top) :
                      \A i \in 1..Len(top) : RankedAfter(top[i].k, key, labels)

\* Six categories, IT met fourth but counted three times and the others
\* once: IT leads, the ties follow in the order met, the sixth is left out.
C17_Witness ==
    /\ StatsReturned /\ Success(ret)
    /\ ret.value.statistics.top_categories
         = <<[k |-> JStr("IT"), n |-> 3], [k |-> JStr("Retail"), n |-> 1],
             [k |-> JStr("Logistics"), n |-> 1], [k |-> JStr("Admin"), n |-> 1],
             [k |-> JStr("Sales"), n |-> 1]>>

\* The record fields that hold labels, with the source list of each.
LabelFields == {<<"categories", "JobCategory">>,
                <<"employment_type", "EmploymentType">>,
                <<"location", "id_Job_NearestMRTStation">>}

\* The objects of a list of an entry's job, as sent.
SourceList(item, key) == Elements(Get(Get(item, "job", EmptyObj), key, EmptyList))

\* C22: for every job entry, each of the record's categories,
\* employment_type and location sequences has one element per object of the
\* corresponding source list, that object's display label (the empty string
\* for an object that has none), in source order, duplicates kept.
C22_LabelsInSourceOrder ==
    (StatsReturned /\ Success(sres)) =>
        \A i \in 1..Len(sres.value.jobs) : \A f \in LabelFields :
            LET labels == sres.value.jobs[i][f[1]]
                source == SourceList(SourceItems[i], f[2])
            IN  /\ Len(labels) = Len(source)
                /\ \A k \in 1..Len(source) :
                      labels[k] = IF Omitted(source[k], "caption") THEN JStr("")
                                  ELSE source[k].f["caption"]

\* An entry sent with the categories F&B, Hospitality, F&B came back with
\* those three labels in that order.
C22_Witness ==
    /\ StatsReturned /\ Success(sres)
    /\ Len(sres.value.jobs) = 2
    /\ SourceList(SourceItems[2], "JobCategory")
         = <<Label("F&B"), Label("Hospitality"), Label("F&B")>>
    /\ sres.value.jobs[2].categories
         = <<JStr("F&B"), JStr("Hospitality"), JStr("F&B")>>

\* C16: every invocation of calculate_job_statistics(keywords, sample_size)
\* makes exactly one call of search_jobs_api, with the same keywords,
\* page = 1 and per_page_count = min(sample_size, 20), and so causes at
\* most one outbound request.
C16_OneSearchCall ==
    (op = "calculate_job_statistics") =>
        /\ call.page = 1
        /\ call.per_page_count = Min(call.sample_size, 20)
        /\ Len(sent) = 1
        /\ sent[1] = Params(call.keywords, 1, Min(call.sample_size, 20))
        /\ call.keywords = sent[1].keywords

\* Statistics over a sample of 30 asked the search for 20 per page, once.
C16_Witness ==
    /\ StatsReturned /\ Success(ret)
    /\ call.sample_size = 30
    /\ call.per_page_count = 20
    /\ Len(sent) = 1
    /\ ret.value.jobs_analyzed = 2

(***************************************************************************)
(* SpecLevels: calculate_job_statistics over samples that differ in their  *)
(* education and experience levels, some with more than five distinct      *)
(* levels and employment types                                             *)
(***************************************************************************)
MaxLevelJobs == 2

LevelJob(education, experience) ==
    JobOnly([MinimumEducationLevel    |-> Label(education),
             MinimumYearsofExperience |-> Label(experience)])

EducationLevels == <<"Primary", "Secondary", "Diploma", "Degree", "Masters", "PhD">>
ExperienceLevels == <<"1 year", "2 years", "3 years", "4 years", "5 years", "6 years">>
EmploymentTypes ==
    <<"Full Time", "Part Time", "Contract", "Temporary", "Internship", "Freelance">>

\* Six jobs, each with a level of its own.
SixLevels ==
    [i \in 1..Len(EducationLevels) |->
        LevelJob(EducationLevels[i], ExperienceLevels[i])]

LevelEntries ==
    {LevelJob("Degree", "2 years"),
     LevelJob("N/A", ""),
     LevelJob("", "N/A"),
     JobOnly([MinimumEducationLevel |-> JObj([caption |-> JNull])]),
     EmptyObj,
     Labelled("EmploymentType", EmploymentTypes)}

LevelBodies ==
    {JObj([data |-> JObj([result |-> JList(q \o r)])]) :
        q \in SeqsUpTo(LevelEntries, MaxLevelJobs), r \in {<<>>, SixLevels}}

NextLevels ==
    \/ /\ pc = "idle"
       /\ \E k \in Keywords, n \in SampleSizes : CallStatistics(k, n)
       /\ UNCHANGED <<tasks, tool>>
    \/ /\ pc = "waiting"
       /\ \E b \in LevelBodies : Responds(200, b)
       /\ UNCHANGED <<tasks, tool>>
    \/ TakeResult /\ UNCHANGED <<tasks, tool>>

SpecLevels == Init /\ [][NextLevels]_vars

LevelFields == {<<"education_requirements", "education">>,
                <<"experience_requirements", "experience">>}

\* The values of a single-valued field over the sample, in sample order.
Values(jobs, field) == [i \in 1..Len(jobs) |-> jobs[i][field]]

\* What one job adds to the counter of a single-valued field.
AddedByJob(job, field) ==
    IF field = "education" THEN CountJob(EmptyCounters, job).education
    ELSE CountJob(EmptyCounters, job).experience

\* C18 as claimed: every job adds exactly one increment to
\* education_requirements under its education value when that value is not
\* "N/A" and none when it is "N/A", likewise for experience_requirements;
\* both maps are returned in full, as is employment_types.
C18_OneIncrementUnlessNA ==
    (StatsReturned /\ Success(ret)) =>
        /\ \A f \in LevelFields :
              LET values == Values(sres.value.jobs, f[2])
                  counted == SelectSeq(values, LAMBDA v : v # JStr("N/A"))
                  map == ret.value.statistics[f[1]]
              IN  /\ \A i \in 1..Len(values) :
                        AddedByJob(sres.value.jobs[i], f[2]) =
                            IF values[i] # JStr("N/A")
                            THEN <<[k |-> values[i], n |-> 1]>> ELSE <<>>
                  /\ Keys(map) = Range(counted)
                  /\ Len(map) = Cardinality(Range(counted))
                  /\ \A key \in Keys(map) : CountOf(map, key) = Occurrences(key, counted)
        /\ LET all == NonEmpty(AllLabels(sres.value.jobs, "employment_type"))
               map == ret.value.statistics.employment_types
           IN  /\ Keys(map) = Range(all)
               /\ Len(map) = Cardinality(Range(all))

\* C18 as amended: every job adds exactly one increment under its education
\* value when that value is non-empty and not "N/A", and none when it is
\* "N/A", empty or null; likewise for experience; both maps are returned in
\* full, every counted value with its count, as is employment_types.
C18_OneIncrementUnlessNAOrEmpty ==
    (StatsReturned /\ Success(ret)) =>
        /\ \A f \in LevelFields :
              LET values == Values(sres.value.jobs, f[2])
                  counted == SelectSeq(values,
                                LAMBDA v : Truthy(v) /\ v # JStr("N/A"))
                  map == ret.value.statistics[f[1]]
              IN  /\ \A i \in 1..Len(values) :
                        AddedByJob(sres.value.jobs[i], f[2]) =
                            IF Truthy(values[i]) /\ values[i] # JStr("N/A")
                            THEN <<[k |-> values[i], n |-> 1]>> ELSE <<>>
                  /\ Keys(map) = Range(counted)
                  /\ Len(map) = Cardinality(Range(counted))
                  /\ \A key \in Keys(map) : CountOf(map, key) = Occurrences(key, counted)
        /\ LET all == NonEmpty(AllLabels(sres.value.jobs, "employment_type"))
               map == ret.value.statistics.employment_types
           IN  /\ Keys(map) = Range(all)
               /\ Len(map) = Cardinality(Range(all))

\* Eight jobs, one of them "N/A", six distinct education levels counted and
\* all six returned, Degree twice; six employment types returned.
C18_Witness ==
    /\ StatsReturned /\ Success(ret)
    /\ ret.value.jobs_analyzed = 8
    /\ \E i \in 1..8 : sres.value.jobs[i].education = JStr("N/A")
    /\ Len(ret.value.statistics.education_requirements) = 6
    /\ CountOf(ret.value.statistics.education_requirements, JStr("Degree")) = 2
    /\ Len(ret.value.statistics.employment_types) = 6

(***************************************************************************)
(* SpecDescription: search_jobs_api over one entry whose JobDescription    *)
(* varies in length around the limit and in its markup and white space     *)
(***************************************************************************)
Run(n) == [i \in 1..n |-> "a"]

TextLengths == {0, 1, 499, 500, 501, 600}

TextHeads == {<<>>, <<"<p>">>, <<" ", "\n">>, <<"<b>", "T", "</b>", "\n", "\n">>}

TextTails == {<<>>, <<"</p>">>, <<"\n", " ">>, <<"<br>", "z">>}

HelloWorld ==
    <<"<p>", "H", "e", "l", "l", "o", "</p>", "<p>", "W", "o", "r", "l", "d", "</p>">>

DescriptionTexts ==
    {h \o Run(n) \o t : h \in TextHeads, n \in TextLengths, t \in TextTails}
    \cup {HelloWorld}

DescriptionBodies ==
    {JObj([data |-> JObj([result |-> JList(<<
        JobOnly([Title |-> JStr("Cook"), JobDescription |-> JText(c)])>>)])]) :
        c \in DescriptionTexts}

NextDescription ==
    \/ /\ pc = "idle"
       /\ \E k \in Keywords, p \in Pages : CallSearch(k, p, 10)
       /\ UNCHANGED <<tasks, tool>>
    \/ /\ pc = "waiting"
       /\ \E b \in DescriptionBodies : Responds(200, b)
       /\ UNCHANGED <<tasks, tool>>
    \/ TakeResult /\ UNCHANGED <<tasks, tool>>

SpecDescription == Init /\ [][NextDescription]_vars

\* The description an entry came with, when it has one.
HasDescription(item) ==
    /\ ~Omitted(item, "job")
    /\ ~Omitted(item.f["job"], "JobDescription")
    /\ item.f["job"].f["JobDescription"].t = "text"

SourceDescription(item) == item.f["job"].f["JobDescription"].c

\* C19: for every job entry, the description is the cleaned plain text
\* itself when that text has at most 500 characters, and otherwise its
\* first 500 characters followed by "..."; the marker is appended only when
\* truncation occurred, so a description never exceeds 503 characters.
C19_Truncation ==
    (SearchReturned /\ Success(ret)) =>
        \A i \in 1..Len(ret.value.jobs) :
            HasDescription(SourceItems[i]) =>
                LET cleaned == PlainText(SourceDescription(SourceItems[i]))
                    description == ret.value.jobs[i].description.c
                IN  /\ Len(description) <= 503
                    /\ IF Len(cleaned) <= 500
                       THEN description = cleaned
                       ELSE /\ Len(description) = 503
                            /\ SubSeq(description, 1, 500) = SubSeq(cleaned, 1, 500)
                            /\ SubSeq(description, 501, 503) = <<".", ".", ".">>

\* A description whose cleaned text has 602 characters came back as its
\* first 500 and the marker.
C19_Witness ==
    /\ SearchReturned /\ Success(ret)
    /\ Len(ret.value.jobs) = 1
    /\ HasDescription(SourceItems[1])
    /\ Len(PlainText(SourceDescription(SourceItems[1]))) = 602
    /\ Len(ret.value.jobs[1].description.c) = 503

\* C20: the source description <p>Hello</p><p>World</p> yields the
\* description "Hello\nWorld": tags stripped, each block boundary a single
\* newline, untruncated.
C20_HelloWorld ==
    (SearchReturned /\ Success(ret)) =>
        \A i \in 1..Len(ret.value.jobs) :
            (/\ HasDescription(SourceItems[i])
             /\ SourceDescription(SourceItems[i]) = HelloWorld)
            => ret.value.jobs[i].description
                 = JText(<<"H", "e", "l", "l", "o", "\n", "W", "o", "r", "l", "d">>)

(***************************************************************************)
(* SpecConcurrent: several callers inside search_jobs_api and              *)
(* calculate_job_statistics at once. Every name the functions assign is a  *)
(* local of the invocation, so a step of one caller works on tasks[t]      *)
(* alone; the steps interleave at the blocking GET.                        *)
(***************************************************************************)
TaskCallSearch(t, keywords, page, per_page_count) ==
    /\ tasks[t].pc = "idle"
    /\ tasks' = [tasks EXCEPT ![t] =
                   [NoLocals EXCEPT
                       !.pc = "waiting",
                       !.op = "search_jobs_api",
                       !.call = [keywords |-> keywords, page |-> page,
                                 per_page_count |-> per_page_count,
                                 sample_size |-> 0],
                       !.sent = IssueGet(<<>>, Params(keywords, page,
                                                      per_page_count))]]
    /\ UNCHANGED <<invocation, tool>>

TaskCallStatistics(t, keywords, sample_size) ==
    /\ tasks[t].pc = "idle"
    /\ tasks' = [tasks EXCEPT ![t] =
                   [NoLocals EXCEPT
                       !.pc = "waiting",
                       !.op = "calculate_job_statistics",
                       !.call = [keywords |-> keywords, page |-> 1,
                                 per_page_count |-> StatsPerPage(sample_size),
                                 sample_size |-> sample_size],
                       !.sent = IssueGet(<<>>, Params(keywords, 1,
                                                      StatsPerPage(sample_size)))]]
    /\ UNCHANGED <<invocation, tool>>

TaskComplete(t, remote) ==
    /\ tasks[t].pc = "waiting"
    /\ \E attempt \in {TryBlock(remote, tasks[t].call.page, "Exception")} :
       \E searched \in {Handled(attempt)} :
          tasks' = [tasks EXCEPT ![t] =
                      [pc      |-> "returned",
                       op      |-> tasks[t].op,
                       call    |-> tasks[t].call,
                       sent    |-> tasks[t].sent,
                       outcome |-> remote,
                       cause   |-> attempt.exc,
                       sres    |-> searched,
                       ret     |-> IF tasks[t].op = "calculate_job_statistics"
                                   THEN AfterSearch(tasks[t].call.keywords, searched)
                                   ELSE searched]]
    /\ UNCHANGED <<invocation, tool>>

TaskTakeResult(t) ==
    /\ tasks[t].pc = "returned"
    /\ tasks' = [tasks EXCEPT ![t] = NoLocals]
    /\ UNCHANGED <<invocation, tool>>

ConcurrentSampleSizes == {1, 20}

ConcurrentBodies ==
    {JNull,
     JObj([data |-> JObj([pager |-> FullPager, result |-> JList(<<FullEntry>>)])]),
     JObj([data |-> JObj([result |-> JList(<<
         Labelled("JobCategory", <<"F&B", "Hospitality", "F&B">>), FullEntry>>)])])}

ConcurrentAnswers ==
    TransportFailures \cup {Response(503, JNull)} \cup
    {Response(200, b) : b \in ConcurrentBodies}

NextConcurrent ==
    \/ \E t \in Tasks, k \in Keywords, p \in Pages : TaskCallSearch(t, k, p, 10)
    \/ \E t \in Tasks, k \in Keywords, n \in ConcurrentSampleSizes :
          TaskCallStatistics(t, k, n)
    \/ \E t \in Tasks, a \in ConcurrentAnswers : TaskComplete(t, a)
    \/ \E t \in Tasks : TaskTakeResult(t)

SpecConcurrent == Init /\ [][NextConcurrent]_vars

TaskReturned(t, fn) == tasks[t].pc = "returned" /\ tasks[t].op = fn

RunAlone(l) ==
    Local(SearchOutcome(l.outcome, l.call.page, "Exception"), LAMBDA searched :
        IF l.op = "calculate_job_statistics"
        THEN AfterSearch(l.call.keywords, searched)
        ELSE searched)

Text(text) == [kind |-> "text", text |-> text]

Required(parameter) == Text("Error: '" \o parameter \o "' parameter is required")

KeywordsNotNone(keywords) == keywords # JNull

\* Lines 130 and 167: if not keywords: return the validation error.
KeywordsGiven(keywords) == Truthy(keywords)

\* sep.join(labels)
RECURSIVE Join(_, _)
Join(sep, labels) ==
    IF labels = <<>> THEN ""
    ELSE IF Len(labels) = 1 THEN Head(labels).s
    ELSE Head(labels).s \o sep \o Join(sep, Tail(labels))

JoinExc(labels) ==
    FirstExc([i \in 1..Len(labels) |->
                IF labels[i].t # "str"
                THEN OtherException("sequence item " \o Decimal(i - 1)
                        \o ": expected str instance, " \o TypeName(labels[i])
                        \o " found")
                ELSE NoExc])

\* Lines 144-154: the lines of one job.
RenderJob(i, job) ==
    Decimal(i) \o ". " \o PyStr(job.title) \o "\n"
    \o "   Company: " \o PyStr(job.company) \o "\n"
    \o "   Job ID: " \o PyStr(job.job_id) \o "\n"
    \o (IF Truthy(job.salary)
        THEN "   Salary: " \o PyStr(job.salary) \o "\n" ELSE "")
    \o (IF job.location # <<>>
        THEN "   Location: "
             \o Join(", ", SubSeq(job.location, 1, Min(3, Len(job.location))))
             \o "\n"
        ELSE "")
    \o (IF job.categories # <<>>
        THEN "   Categories: " \o Join(", ", job.categories) \o "\n" ELSE "")
    \o "   URL: " \o PyStr(job.url) \o "\n\n"

RenderJobExc(job) ==
    FirstExc(<<JoinExc(SubSeq(job.location, 1, Min(3, Len(job.location)))),
               JoinExc(job.categories)>>)

RECURSIVE RenderJobs(_, _, _)
RenderJobs(jobs, i, text) ==
    IF i > Len(jobs) THEN Text(text)
    ELSE IF RenderJobExc(jobs[i]).cls # "none" THEN Propagate(RenderJobExc(jobs[i]))
    ELSE Local(text \o RenderJob(i, jobs[i]),
               LAMBDA response_text : RenderJobs(jobs, i + 1, response_text))

\* Lines 138-161.
RenderSearch(keywords, result) ==
    IF result.success
    THEN RenderJobs(result.jobs, 1,
            "Found " \o PyStr(result.total_jobs) \o " jobs for '" \o keywords \o "'\n"
            \o "Showing page " \o PyStr(result.current_page) \o " of "
            \o PyStr(result.total_pages) \o "\n"
            \o "Results on this page: " \o Decimal(result.results_on_page) \o "\n\n")
    ELSE Text("Error: " \o result.error)

\* f"{count / jobs_analyzed * 100:.1f}": tenths of a percent, the half
\* rounded to even.
Percentage(count, jobs_analyzed) ==
    LET q == (count * 1000) \div jobs_analyzed
        r == (count * 1000) % jobs_analyzed
        tenths == IF 2 * r > jobs_analyzed \/ (2 * r = jobs_analyzed /\ q % 2 = 1)
                  THEN q + 1 ELSE q
    IN  Decimal(tenths \div 10) \o "." \o Digit(tenths % 10)

RECURSIVE RenderShares(_, _)
RenderShares(counts, jobs_analyzed) ==
    IF counts = <<>> THEN ""
    ELSE "  * " \o PyStr(Head(counts).k) \o ": " \o Decimal(Head(counts).n)
         \o " (" \o Percentage(Head(counts).n, jobs_analyzed) \o "%)\n"
         \o RenderShares(Tail(counts), jobs_analyzed)

RECURSIVE RenderCounts(_)
RenderCounts(counts) ==
    IF counts = <<>> THEN ""
    ELSE "  * " \o PyStr(Head(counts).k) \o ": " \o Decimal(Head(counts).n)
         \o " jobs\n" \o RenderCounts(Tail(counts))

ZeroDivisionError == OtherException("division by zero")

\* Lines 175-210.
RenderStatistics(keywords, result) ==
    IF ~result.success THEN Text("Error: " \o result.error)
    ELSE LET stats == result.statistics
         IN  IF /\ result.jobs_analyzed = 0
                /\ stats.top_categories \o stats.employment_types # <<>>
             THEN Propagate(ZeroDivisionError)
             ELSE Text(
                "Job Market Statistics for '" \o keywords \o "'\n"
                \o "Total jobs in market: " \o PyStr(result.total_jobs_in_market) \o "\n"
                \o "Jobs analyzed: " \o Decimal(result.jobs_analyzed) \o "\n\n"
                \o "Top Categories:\n"
                \o RenderShares(stats.top_categories, result.jobs_analyzed)
                \o "\nEmployment Types:\n"
                \o RenderShares(stats.employment_types, result.jobs_analyzed)
                \o "\nTop Locations:\n"
                \o RenderCounts(stats.top_locations)
                \o (IF stats.education_requirements # <<>>
                    THEN "\nEducation Requirements:\n"
                         \o RenderCounts(stats.education_requirements)
                    ELSE "")
                \o (IF stats.experience_requirements # <<>>
                    THEN "\nExperience Requirements:\n"
                         \o RenderCounts(stats.experience_requirements)
                    ELSE ""))

\* call_tool returns without calling a core function.
Reply(name, arguments, reply) ==
    /\ tool' = [pc |-> "replied", name |-> name, arguments |-> arguments,
                reply |-> reply]
    /\ UNCHANGED invocation

\* call_tool is inside a core function, which waits for its GET.
Calling(name, arguments) ==
    tool' = [pc |-> "calling", name |-> name, arguments |-> arguments,
             reply |-> Nothing]

\* Lines 125-234, up to the return or to the GET of the core function.
CallTool(name, arguments) ==
    /\ tool.pc = "idle" /\ pc = "idle"
    /\ IF name = "search_jobs"
       THEN LET keywords == Get(arguments, "keywords", JStr(""))
                page == Get(arguments, "page", JInt(1))
                per_page_count == Get(arguments, "per_page_count", JInt(10))
            IN  IF ~KeywordsGiven(keywords)
                THEN Reply(name, arguments, Required("keywords"))
                ELSE /\ CallSearch(keywords.s, page.n, per_page_count.n)
                     /\ Calling(name, arguments)
       ELSE IF name = "get_job_statistics"
       THEN LET keywords == Get(arguments, "keywords", JStr(""))
                sample_size == Get(arguments, "sample_size", JInt(20))
            IN  IF ~KeywordsGiven(keywords)
                THEN Reply(name, arguments, Required("keywords"))
                ELSE /\ CallStatistics(keywords.s, sample_size.n)
                     /\ Calling(name, arguments)
       ELSE IF name = "get_job_details"
       THEN LET job_id == Get(arguments, "job_id", JStr(""))
            IN  IF ~Truthy(job_id)
                THEN Reply(name, arguments, Required("job_id"))
                ELSE Reply(name, arguments,
                        Text("Job details for ID " \o PyStr(job_id)
                             \o ": This would require additional API implementation. "
                             \o "Currently, use search_jobs and find the job in results."))
       ELSE Reply(name, arguments, Text("Error: Unknown tool '" \o name \o "'"))
    /\ UNCHANGED tasks

\* The core function has returned: call_tool renders its result.
ToolReply ==
    /\ tool.pc = "calling" /\ pc = "returned"
    /\ tool' = [tool EXCEPT
                  !.pc = "replied",
                  !.reply = IF ret.kind = "raise" THEN ret
                            ELSE IF tool.name = "search_jobs"
                            THEN RenderSearch(call.keywords, ret.value)
                            ELSE RenderStatistics(call.keywords, ret.value)]
    /\ UNCHANGED <<invocation, tasks>>

\* The client has the reply; the handler's frame is gone.
ToolDone ==
    /\ tool.pc = "replied"
    /\ tool' = NoRequest
    /\ \/ TakeResult
       \/ pc = "idle" /\ UNCHANGED invocation
    /\ UNCHANGED tasks

ToolNames == {"search_jobs", "get_job_statistics", "get_job_details", "list_jobs"}

\* A keywords argument missing, empty, null and given; the other arguments
\* missing or given.
ToolArguments ==
    {JObj(k @@ o) :
        k \in {<<>>, [keywords |-> JStr("")], [keywords |-> JNull],
               [keywords |-> JStr("cook")]},
        o \in {<<>>, [page |-> JInt(3)], [per_page_count |-> JInt(25)],
               [sample_size |-> JInt(1)], [job_id |-> JStr("J1")]}}

ToolBodies ==
    {JNull, EmptyObj,
     JObj([data |-> JObj([pager |-> FullPager, result |-> JList(<<FullEntry>>)])]),
     JObj([data |-> JObj([result |-> JList(<<
         Labelled("JobCategory", <<"F&B", "Hospitality", "F&B">>), FullEntry>>)])])}

NextTool ==
    \/ \E name \in ToolNames, arguments \in ToolArguments : CallTool(name, arguments)
    \/ /\ tool.pc = "calling"
       /\ \E f \in TransportFailures : RequestFails(f)
       /\ UNCHANGED <<tasks, tool>>
    \/ /\ tool.pc = "calling"
       /\ \E st \in {200, 503}, b \in ToolBodies : Responds(st, b)
       /\ UNCHANGED <<tasks, tool>>
    \/ ToolReply
    \/ ToolDone

SpecTool == Init /\ [][NextTool]_vars

KeywordTools == {"search_jobs", "get_job_statistics"}

KeywordsMissingOrEmpty(arguments) ==
    Omitted(arguments, "keywords") \/ arguments.f["keywords"] = JStr("")

\* C14: in call_tool a search_jobs or get_job_statistics request whose
\* keywords argument is missing or empty returns the validation error text
\* and never invokes search_jobs_api or calculate_job_statistics: no core
\* function is entered and no outbound request is made.
C14_ValidationBeforeCore ==
    (/\ tool.pc # "idle"
     /\ tool.name \in KeywordTools
     /\ KeywordsMissingOrEmpty(tool.arguments))
    => /\ tool.pc = "replied"
       /\ tool.reply = Text("Error: 'keywords' parameter is required")
       /\ pc = "idle" /\ op = "none" /\ sent = <<>>

\* A get_job_statistics request with no keywords argument was answered with
\* the validation error.
C14_Witness ==
    /\ tool.pc = "replied"
    /\ tool.name = "get_job_statistics"
    /\ Omitted(tool.arguments, "keywords")
    /\ tool.reply.kind = "text"
    /\ op = "none"

\* C23: the dispatcher's statistics rendering never divides by zero: in
\* every successful result of calculate_job_statistics, if top_categories or
\* employment_types has an entry then jobs_analyzed is greater than 0, so
\* the percentage call_tool computes per entry is defined and the reply is
\* rendered, also when the search returned no jobs.
C23_NoDivisionByZero ==
    (/\ tool.name = "get_job_statistics"
     /\ pc = "returned" /\ Success(ret))
    => /\ (ret.value.statistics.top_categories # <<>>
           \/ ret.value.statistics.employment_types # <<>>)
          => ret.value.jobs_analyzed > 0
       /\ RenderStatistics(call.keywords, ret.value).kind = "text"
       /\ tool.pc = "replied" => tool.reply.kind = "text"

\* Statistics over two jobs were rendered, F&B with three of two jobs.
C23_Witness ==
    /\ tool.pc = "replied"
    /\ tool.name = "get_job_statistics"
    /\ pc = "returned" /\ Success(ret)
    /\ ret.value.jobs_analyzed = 2
    /\ ret.value.statistics.top_categories
         = <<[k |-> JStr("F&B"), n |-> 3], [k |-> JStr("Hospitality"), n |-> 2]>>
    /\ tool.reply = RenderStatistics("cook", ret.value)
    /\ tool.reply.kind = "text"

====
